---- MODULE Spec2Model ----
(***************************************************************************)
(* Model of src/src/compiler/legacyIR.ts: the lowering of the typed IR of  *)
(* a GraphQL document to the legacy IR.                                    *)
(*                                                                         *)
(* Values                                                                  *)
(*   type           a GraphQL object type, modelled by its name            *)
(*   selection set  [possibleTypes, selections (, typeCase)]               *)
(*   selection      [kind |-> "FragmentSpread", fragmentName, id]          *)
(*                  [kind |-> "Field", name, alias (, selectionSet)]       *)
(*                  [kind |-> "TypeCondition", selectionSet]               *)
(*                  [kind |-> "BooleanCondition", selectionSet]            *)
(* A FragmentSpread is an object in the source; its identity is the id     *)
(* field (the path of the node in its selection set).  A selection set     *)
(* that is lowered carries in typeCase the partition that the external     *)
(* TypeCase construction yields for it.                                    *)
(***************************************************************************)
EXTENDS Integers, Sequences, FiniteSets, TLC

VARIABLES
    selectionSet,   \* the selection set handed to transformSelectionSetToLegacyIR
    lowered,        \* what transformSelectionSetToLegacyIR returned
    options,        \* the compiler options (context.options)
    context,        \* what compileToIR returned: operations and fragments, in
                    \* the order of Object.entries
    cursor,         \* compileToLegacyIR: index of the next entry of the running loop
    operations,     \* compileToLegacyIR: the local operations
    fragments,      \* compileToLegacyIR: the local fragments
    legacyContext,  \* compileToLegacyIR: the value returned
    error,          \* compileToLegacyIR: the exception thrown
    pc              \* position of the run

lowerVars == <<selectionSet, lowered>>
compileVars == <<context, cursor, operations, fragments, legacyContext, error>>
vars == <<selectionSet, lowered, options, context, cursor, operations, fragments,
          legacyContext, error, pc>>

\* Bounds of the model.
MaxNodes == 3       \* selections in one selection set, nested conditions included
MaxRecords == 2     \* extra records of one type-case partition
MaxOperations == 2  \* operations of one document

----------------------------------------------------------------------------
\* Sequence helpers

Range(s) == {s[i] : i \in DOMAIN s}

\* The concatenation of a sequence of sequences: what flatMap (of
\* ../utilities/array) and push(...items) make of the arrays they are given.
RECURSIVE Concat(_)
Concat(ss) == IF ss = <<>> THEN <<>> ELSE Head(ss) \o Concat(Tail(ss))

\* Array.prototype.includes
Includes(s, x) == \E i \in DOMAIN s : s[i] = x

----------------------------------------------------------------------------
\* The inputs: types, selections, partitions

Types == <<"A", "B", "C">>

\* The possible types of the selection set under lowering.
FullTypes == <<"A", "B", "C">>

\* The possible types an inline type condition may have.
ConditionTypes == {<<"A">>, <<"A", "B">>, <<"A", "B", "C">>}

FragmentNames == {"X", "Y"}

\* A field of the typed IR.
NewField(name, alias, type, isConditional) ==
    [kind |-> "Field", name |-> name, alias |-> alias, type |-> type, args |-> <<>>,
     isConditional |-> isConditional, description |-> "", isDeprecated |-> FALSE,
     deprecationReason |-> ""]

FieldK == NewField("k", "", "String", FALSE)

FieldH == NewField("h", "r", "Int", TRUE)

\* The selection set of the composite field f, and its partition.
NestedSelectionSet ==
    [possibleTypes |-> <<"A", "B">>,
     selections |->
        <<FieldK,
          [kind |-> "FragmentSpread", fragmentName |-> "Y", id |-> <<2>>],
          [kind |-> "TypeCondition",
           selectionSet |->
              [possibleTypes |-> <<"A">>,
               selections |->
                  <<FieldH,
                    [kind |-> "FragmentSpread", fragmentName |-> "X",
                     id |-> <<3, 2>>]>>]]>>,
     typeCase |->
        [default |-> [possibleTypes |-> <<"A", "B">>, fields |-> <<FieldK>>],
         records |->
            <<[possibleTypes |-> <<"A">>, fields |-> <<FieldK, FieldH>>],
              [possibleTypes |-> <<"B">>, fields |-> <<FieldK>>]>>]]

FieldF ==
    LET field == NewField("f", "", "Pet", FALSE)
    IN [k \in DOMAIN field \cup {"selectionSet"} |->
           IF k = "selectionSet" THEN NestedSelectionSet ELSE field[k]]

Leaves ==
    {[kind |-> "FragmentSpread", fragmentName |-> n, id |-> <<>>] : n \in FragmentNames}
    \cup {FieldF}

\* The sequences of selections with exactly n nodes, the conditions'
\* selections counted (a GraphQL selection set selects at least one thing).
\* pt: the possible types of the enclosing selection set.
RECURSIVE SelectionsOfSize(_, _)
RECURSIVE NodesOfSize(_, _)
NodesOfSize(n, pt) ==
    IF n = 1
    THEN Leaves
    ELSE {[kind |-> "TypeCondition",
           selectionSet |-> [possibleTypes |-> c[1], selections |-> c[2]]] :
             c \in UNION {{<<t, s>> : s \in SelectionsOfSize(n - 1, t)} :
                             t \in ConditionTypes}}
         \cup {[kind |-> "BooleanCondition",
                selectionSet |-> [possibleTypes |-> pt, selections |-> s]] :
                 s \in SelectionsOfSize(n - 1, pt)}

SelectionsOfSize(n, pt) ==
    IF n = 0
    THEN {<<>>}
    ELSE UNION {{<<nd>> \o rest :
                    nd \in NodesOfSize(k, pt), rest \in SelectionsOfSize(n - k, pt)} :
                 k \in 1..n}

\* The identity of the FragmentSpread objects: the path of each node.
RECURSIVE WithIds(_, _)
WithIds(selections, path) ==
    [i \in DOMAIN selections |->
        LET sel == selections[i] IN
        CASE sel.kind = "FragmentSpread" ->
                [sel EXCEPT !.id = path \o <<i>>]
          [] sel.kind \in {"TypeCondition", "BooleanCondition"} ->
                [sel EXCEPT !.selectionSet.selections =
                                WithIds(sel.selectionSet.selections, path \o <<i>>)]
          [] OTHER -> sel]

FieldChoices == {<<>>, <<FieldF>>}

RecordChoices ==
    {[possibleTypes |-> t, fields |-> fs] :
        t \in {<<"A">>, <<"B">>, <<"C">>, <<"B", "A">>, <<"A", "B", "C">>},
        fs \in FieldChoices}

RECURSIVE SeqsUpTo(_, _)
SeqsUpTo(S, n) ==
    IF n = 0 THEN {<<>>}
    ELSE LET shorter == SeqsUpTo(S, n - 1) IN
         shorter \cup {Append(s, x) : s \in {t \in shorter : Len(t) = n - 1}, x \in S}

\* The fields a selection set selects whatever the type: directly or under
\* its boolean conditions.
RECURSIVE UnconditionalFields(_)
UnconditionalFields(selections) ==
    Concat([i \in DOMAIN selections |->
              LET sel == selections[i] IN
              CASE sel.kind = "Field" -> <<sel>>
                [] sel.kind = "BooleanCondition" ->
                       UnconditionalFields(sel.selectionSet.selections)
                [] OTHER -> <<>>])

\* The fragment spreads and fields of a selection set that are reached
\* through its conditions, each with the conditions passed on the way.
RECURSIVE LeafOccurrences(_, _)
LeafOccurrences(selections, path) ==
    UNION {LET sel == selections[i] IN
           CASE sel.kind = "TypeCondition" ->
                    LeafOccurrences(
                        sel.selectionSet.selections,
                        Append(path, [kind |-> "TypeCondition",
                                      types |-> Range(sel.selectionSet.possibleTypes)]))
             [] sel.kind = "BooleanCondition" ->
                    LeafOccurrences(
                        sel.selectionSet.selections,
                        Append(path, [kind |-> "BooleanCondition", types |-> {}]))
             [] OTHER -> {[leaf |-> sel, path |-> path]} : i \in DOMAIN selections}

\* The field applies to every possible type of the record: the selection set
\* selects it under type conditions that cover them all or, with
\* mergeInFieldsFromFragmentSpreads, spreads a fragment there.
Applies(selections, field, record, opts) ==
    \E o \in LeafOccurrences(selections, <<>>) :
        /\ \/ o.leaf = field
           \/ opts.mergeInFieldsFromFragmentSpreads /\ o.leaf.kind = "FragmentSpread"
        /\ \A i \in DOMAIN o.path :
              o.path[i].kind = "TypeCondition" =>
                  Range(record.possibleTypes) \subseteq o.path[i].types

\* The partitions the external TypeCase construction can yield for a
\* selection set: a default record with the fields that apply whatever the
\* type, and extra records, each with fields that apply to its possible
\* types, no possible type in two of them.
TypeCases(selections, opts) ==
    LET records == {r \in RecordChoices :
                      \A f \in Range(r.fields) : Applies(selections, f, r, opts)}
    IN {[default |-> [possibleTypes |-> FullTypes,
                      fields |-> UnconditionalFields(selections)],
         records |-> rs] :
           rs \in {r \in SeqsUpTo(records, MaxRecords) :
                     \A i, j \in DOMAIN r :
                         i < j => Range(r[i].possibleTypes)
                                    \cap Range(r[j].possibleTypes) = {}}}

SelectionSets ==
    UNION {{WithIds(s, <<>>) : s \in SelectionsOfSize(n, FullTypes)} : n \in 1..MaxNodes}

OptionChoices == [mergeInFieldsFromFragmentSpreads : BOOLEAN]

----------------------------------------------------------------------------
\* legacyIR.ts

\* new TypeCase(mergeInFieldsFromFragmentSpreads ? mergeInFragmentSpreads(...) : ...)
TypeCase(ss) == ss.typeCase

\* As everyTypeIncluded, with some for every.
someTypeIncluded(possibleTypes, selection) ==
    \E i \in DOMAIN possibleTypes :
        Includes(selection.selectionSet.possibleTypes, possibleTypes[i])

\* As everyTypeIncluded, with the two lists exchanged.
everyConditionTypeIncluded(possibleTypes, selection) ==
    \A i \in DOMAIN selection.selectionSet.possibleTypes :
        Includes(possibleTypes, selection.selectionSet.possibleTypes[i])

\* possibleTypes.every(type => selection.selectionSet.possibleTypes.includes(type))
everyTypeIncluded(possibleTypes, selection) ==
    \A i \in DOMAIN possibleTypes :
        Includes(selection.selectionSet.possibleTypes, possibleTypes[i])

RECURSIVE collectFragmentSpreads(_, _)

\* As collectFragmentSpreads, without the case of a BooleanCondition.
RECURSIVE collectFragmentSpreadsNoBoolean(_, _)
collectFragmentSpreadsNoBoolean(ss, possibleTypes) ==
    LET Pushed(selection) ==
            CASE selection.kind = "FragmentSpread" -> <<selection>>
              [] selection.kind = "TypeCondition" ->
                    IF everyTypeIncluded(possibleTypes, selection)
                    THEN collectFragmentSpreadsNoBoolean(selection.selectionSet,
                                                         possibleTypes)
                    ELSE <<>>
              [] OTHER -> <<>>
    IN Concat([i \in DOMAIN ss.selections |-> Pushed(ss.selections[i])])

collectFragmentSpreads(ss, possibleTypes) ==
    LET Pushed(selection) ==
            CASE selection.kind = "FragmentSpread" -> <<selection>>
              [] selection.kind = "TypeCondition" ->
                    IF everyTypeIncluded(possibleTypes, selection)
                    THEN collectFragmentSpreads(selection.selectionSet, possibleTypes)
                    ELSE <<>>
              [] selection.kind = "BooleanCondition" ->
                    collectFragmentSpreads(selection.selectionSet, possibleTypes)
              [] OTHER -> <<>>
    IN Concat([i \in DOMAIN ss.selections |-> Pushed(ss.selections[i])])

\* .map((fragmentSpread: FragmentSpread) => fragmentSpread.fragmentName)
fragmentNames(fragmentSpreads) ==
    [i \in DOMAIN fragmentSpreads |-> fragmentSpreads[i].fragmentName]

\* As recordKept, without the test of the number of fields.
recordKeptThoughEmpty(ss, record) ==
    ~ \A i \in DOMAIN ss.possibleTypes :
          Includes(record.possibleTypes, ss.possibleTypes[i])

\* The filter on typeCase.records.
recordKept(ss, record) ==
    /\ ~ \A i \in DOMAIN ss.possibleTypes :
            Includes(record.possibleTypes, ss.possibleTypes[i])
    /\ Len(record.fields) > 0

\* As inlineFragmentsOf, with one inline fragment for all the possible types.
inlineFragmentOfAllTypes(record, fields, fragmentSpreads) ==
    <<[typeCondition |-> record.possibleTypes[1],
       possibleTypes |-> record.possibleTypes,
       fields |-> fields,
       fragmentSpreads |-> fragmentSpreads]>>

\* The inline fragments of one record: one per possible type.
inlineFragmentsOf(record, fields, fragmentSpreads) ==
    [i \in DOMAIN record.possibleTypes |->
        [typeCondition |-> record.possibleTypes[i],
         possibleTypes |-> <<record.possibleTypes[i]>>,
         fields |-> fields,
         fragmentSpreads |-> fragmentSpreads]]

\* for (const inlineFragment of inlineFragments)
\*   inlineFragments[inlineFragment.typeCondition.name] = inlineFragment
namedProperties(inlineFragments) ==
    [name \in {inlineFragments[i].typeCondition : i \in DOMAIN inlineFragments} |->
        LET last == CHOOSE i \in DOMAIN inlineFragments :
                       /\ inlineFragments[i].typeCondition = name
                       /\ \A j \in DOMAIN inlineFragments :
                             inlineFragments[j].typeCondition = name => j <= i
        IN inlineFragments[last]]

RECURSIVE transformSelectionSetToLegacyIR(_)
RECURSIVE transformFieldsToLegacyIR(_)

transformSelectionSetToLegacyIR(ss) ==
    LET typeCase == TypeCase(ss)
        fields == transformFieldsToLegacyIR(typeCase.default.fields)
        kept == SelectSeq(typeCase.records, LAMBDA record : recordKept(ss, record))
        inlineFragments ==
            Concat([r \in DOMAIN kept |->
                      inlineFragmentsOf(
                          kept[r],
                          transformFieldsToLegacyIR(kept[r].fields),
                          fragmentNames(
                              collectFragmentSpreads(ss, kept[r].possibleTypes)))])
        fragmentSpreads ==
            fragmentNames(collectFragmentSpreads(ss, ss.possibleTypes))
    IN [fields |-> fields,
        fragmentSpreads |-> fragmentSpreads,
        inlineFragments |-> inlineFragments,
        inlineFragmentsByName |-> namedProperties(inlineFragments)]

transformFieldsToLegacyIR(fields) ==
    [i \in DOMAIN fields |->
        LET field == fields[i]
            base == [responseName |-> IF field.alias # "" THEN field.alias
                                      ELSE field.name,
                     fieldName |-> field.name,
                     type |-> field.type,
                     args |-> field.args,
                     isConditional |-> field.isConditional,
                     description |-> field.description,
                     isDeprecated |-> field.isDeprecated,
                     deprecationReason |-> field.deprecationReason]
        IN IF "selectionSet" \in DOMAIN field
           THEN LET nested == transformSelectionSetToLegacyIR(field.selectionSet)
                IN [k \in DOMAIN base \cup DOMAIN nested |->
                       IF k \in DOMAIN nested THEN nested[k] ELSE base[k]]
           ELSE base]

----------------------------------------------------------------------------
\* compileToLegacyIR

\* A source text is a sequence of characters.
\* [first, ...rest].join(separator)
RECURSIVE join(_, _)
join(texts, separator) ==
    IF texts = <<>> THEN <<>>
    ELSE IF Len(texts) = 1 THEN texts[1]
    ELSE texts[1] \o separator \o join(Tail(texts), separator)

\* context.fragments[fragmentName]
Undefined == [undefined |-> TRUE]

fragmentNamed(ctx, name) ==
    IF \E j \in DOMAIN ctx.fragments : ctx.fragments[j].fragmentName = name
    THEN ctx.fragments[CHOOSE j \in DOMAIN ctx.fragments :
                          ctx.fragments[j].fragmentName = name]
    ELSE Undefined

\* collectFragmentsReferenced of ./visitors/collectFragmentsReferenced: the
\* names of the fragments reached through the fragment spreads, in the order
\* of their discovery, each once.
RECURSIVE collectInto(_, _, _)
collectInto(ctx, selections, found) ==
    IF selections = <<>> THEN found
    ELSE LET sel == Head(selections)
             after ==
                CASE sel.kind = "FragmentSpread" ->
                        IF Includes(found, sel.fragmentName) THEN found
                        ELSE LET fragment == fragmentNamed(ctx, sel.fragmentName)
                                 added == Append(found, sel.fragmentName)
                             IN IF fragment = Undefined THEN added
                                ELSE collectInto(ctx, fragment.selectionSet.selections,
                                                 added)
                  [] "selectionSet" \in DOMAIN sel ->
                        collectInto(ctx, sel.selectionSet.selections, found)
                  [] OTHER -> found
         IN collectInto(ctx, Tail(selections), after)

collectFragmentsReferenced(ctx, ss) == collectInto(ctx, ss.selections, <<>>)

\* As sourceWithFragments, with the separator join() has by default.
sourceWithFragmentsCommaJoined(ctx, operation, fragmentsReferenced) ==
    join(<<operation.source>>
            \o [k \in DOMAIN fragmentsReferenced |->
                   fragmentNamed(ctx, fragmentsReferenced[k]).source],
         <<",">>)

\* [operation.source, ...fragmentsReferenced.map(name => context.fragments[name].source)]
\*   .join('\n')
sourceWithFragments(ctx, operation, fragmentsReferenced) ==
    join(<<operation.source>>
            \o [k \in DOMAIN fragmentsReferenced |->
                   fragmentNamed(ctx, fragmentsReferenced[k]).source],
         <<"\n">>)

\* createHash('sha256').update(text).digest('hex'): the digest of a text, a
\* value that texts share only when they are equal.
sha256Hex(text) == [algorithm |-> "sha256", encoding |-> "hex", digestOf |-> text]

\* The TypeErrors of reading .source of undefined.  The message is worded by
\* the engine that runs the code, not by the code: either wording of V8 may
\* be the one thrown.
SourceOfUndefined ==
    {[name |-> "TypeError", message |-> m] :
        m \in {<<"Cannot", "read", "properties", "of", "undefined", "(reading",
                 "'source')">>,
               <<"Cannot", "read", "property", "'source'", "of", "undefined">>}}

\* The record compileToLegacyIR builds for an operation.
compiledOperation(ctx, operation) ==
    LET fragmentsReferenced == collectFragmentsReferenced(ctx, operation.selectionSet)
        text == sourceWithFragments(ctx, operation, fragmentsReferenced)
        body == transformSelectionSetToLegacyIR(operation.selectionSet)
    IN [filePath |-> operation.filePath,
        operationName |-> operation.operationName,
        operationType |-> operation.operationType,
        rootType |-> operation.rootType,
        variables |-> operation.variables,
        source |-> operation.source,
        fields |-> body.fields,
        fragmentSpreads |-> body.fragmentSpreads,
        inlineFragments |-> body.inlineFragments,
        inlineFragmentsByName |-> body.inlineFragmentsByName,
        fragmentsReferenced |-> fragmentsReferenced,
        sourceWithFragments |-> text,
        operationId |-> sha256Hex(text)]

\* The record compileToLegacyIR builds for a fragment.
compiledFragment(fragment) ==
    LET body == transformSelectionSetToLegacyIR(fragment.selectionSet)
    IN [typeCondition |-> fragment.type,
        possibleTypes |-> fragment.selectionSet.possibleTypes,
        filePath |-> fragment.filePath,
        fragmentName |-> fragment.fragmentName,
        source |-> fragment.source,
        fields |-> body.fields,
        fragmentSpreads |-> body.fragmentSpreads,
        inlineFragments |-> body.inlineFragments,
        inlineFragmentsByName |-> body.inlineFragmentsByName]

\* The documents.

NoTypeCase == [default |-> [possibleTypes |-> <<"A">>, fields |-> <<>>],
               records |-> <<>>]

SpreadOf(n) == [kind |-> "FragmentSpread", fragmentName |-> n, id |-> <<>>]

SetOf(selections) ==
    [possibleTypes |-> <<"A">>, selections |-> WithIds(selections, <<>>),
     typeCase |-> NoTypeCase]

OperationNames == <<"P", "Q", "R">>

OperationSources == {<<"p">>, <<"p", "\n", "b">>}

OperationSelections ==
    {<<FieldK>>, <<SpreadOf("X")>>, <<SpreadOf("Y")>>,
     <<SpreadOf("X"), SpreadOf("Y")>>, <<SpreadOf("Y"), SpreadOf("X")>>}

OperationChoices(name) ==
    {[filePath |-> "doc.graphql", operationName |-> name, operationType |-> "query",
      rootType |-> "Query", variables |-> <<>>, source |-> src,
      selectionSet |-> SetOf(sels)] :
        src \in OperationSources, sels \in OperationSelections}

RECURSIVE OperationLists(_)
OperationLists(n) ==
    IF n = 0 THEN {<<>>}
    ELSE {Append(ops, op) : ops \in OperationLists(n - 1),
                            op \in OperationChoices(OperationNames[n])}

FragmentChoices(name, sources, selections) ==
    {<<>>} \cup
    {<<[filePath |-> "doc.graphql", fragmentName |-> name, source |-> src,
        type |-> "A", selectionSet |-> SetOf(sels)]>> :
        src \in sources, sels \in selections}

\* Fragment X may spread fragment Y; either may be without a definition.
FragmentLists ==
    {x \o y :
        x \in FragmentChoices("X", {<<"b">>}, {<<FieldK>>, <<FieldK, SpreadOf("Y")>>}),
        y \in FragmentChoices("Y", {<<"b">>, <<"c">>}, {<<FieldK>>})}

Contexts ==
    {[operations |-> ops, fragments |-> frs] :
        ops \in UNION {OperationLists(n) : n \in 1..MaxOperations},
        frs \in FragmentLists}

CompilerOptionChoices ==
    {[mergeInFieldsFromFragmentSpreads |-> TRUE]}
    \cup [mergeInFieldsFromFragmentSpreads : {TRUE}, generateOperationIds : BOOLEAN]

NoContext == [operations |-> <<>>, fragments |-> <<>>]
NoMap == <<>>
NotReturned == [returned |-> FALSE]
NoError == [name |-> "none", message |-> <<>>]
NotLowered == [fields |-> <<>>]
NoSelectionSet == [possibleTypes |-> <<>>, selections |-> <<>>]

Init ==
    /\ options \in CompilerOptionChoices
    /\ context \in Contexts
    /\ cursor = 1
    /\ operations = NoMap
    /\ fragments = NoMap
    /\ legacyContext = NotReturned
    /\ error = NoError
    /\ pc = "operations"
    /\ selectionSet = NoSelectionSet
    /\ lowered = NotLowered

\* The position after the entry at cursor of a loop over entries.
afterEntry(entries, here, next) == IF cursor < Len(entries) THEN here ELSE next

fragmentsOrReturn == IF context.fragments = <<>> THEN "return" ELSE "fragments"

\* One turn of the loop over context.operations.
CompileOperation ==
    /\ pc = "operations"
    /\ cursor <= Len(context.operations)
    /\ LET operation == context.operations[cursor]
           fragmentsReferenced ==
               collectFragmentsReferenced(context, operation.selectionSet)
       IN /\ \A k \in DOMAIN fragmentsReferenced :
                 fragmentNamed(context, fragmentsReferenced[k]) # Undefined
          /\ operations' =
                [n \in DOMAIN operations \cup {operation.operationName} |->
                    IF n = operation.operationName
                    THEN compiledOperation(context, operation)
                    ELSE operations[n]]
    /\ pc' = afterEntry(context.operations, "operations", fragmentsOrReturn)
    /\ cursor' = afterEntry(context.operations, cursor + 1, 1)
    /\ UNCHANGED <<options, context, fragments, legacyContext, error, lowerVars>>

\* The turn of the loop over context.operations that reads the source of a
\* fragment context.fragments does not hold.
ThrowOnMissingFragment ==
    /\ pc = "operations"
    /\ cursor <= Len(context.operations)
    /\ LET operation == context.operations[cursor]
           fragmentsReferenced ==
               collectFragmentsReferenced(context, operation.selectionSet)
       IN \E k \in DOMAIN fragmentsReferenced :
              fragmentNamed(context, fragmentsReferenced[k]) = Undefined
    /\ error' \in SourceOfUndefined
    /\ pc' = "thrown"
    /\ UNCHANGED <<options, context, cursor, operations, fragments, legacyContext,
                   lowerVars>>

\* One turn of the loop over context.fragments.
CompileFragment ==
    /\ pc = "fragments"
    /\ cursor <= Len(context.fragments)
    /\ LET fragment == context.fragments[cursor]
       IN fragments' =
             [n \in DOMAIN fragments \cup {fragment.fragmentName} |->
                 IF n = fragment.fragmentName THEN compiledFragment(fragment)
                 ELSE fragments[n]]
    /\ pc' = afterEntry(context.fragments, "fragments", "return")
    /\ cursor' = afterEntry(context.fragments, cursor + 1, 1)
    /\ UNCHANGED <<options, context, operations, legacyContext, error, lowerVars>>

Return ==
    /\ pc = "return"
    /\ legacyContext' = [returned |-> TRUE,
                         operations |-> operations,
                         fragments |-> fragments,
                         options |-> options]
    /\ pc' = "returned"
    /\ UNCHANGED <<options, context, cursor, operations, fragments, error, lowerVars>>

Next == CompileOperation \/ ThrowOnMissingFragment \/ CompileFragment \/ Return

Spec == Init /\ [][Next]_vars

----------------------------------------------------------------------------
\* The lowering of one selection set

InitLower ==
    /\ options \in OptionChoices
    /\ \E s \in SelectionSets :
          \E tc \in TypeCases(s, options) :
             selectionSet = [possibleTypes |-> FullTypes, selections |-> s,
                             typeCase |-> tc]
    /\ lowered = NotLowered
    /\ pc = "lower"
    /\ context = NoContext
    /\ cursor = 1
    /\ operations = NoMap
    /\ fragments = NoMap
    /\ legacyContext = NotReturned
    /\ error = NoError

Lower ==
    /\ pc = "lower"
    /\ lowered' = transformSelectionSetToLegacyIR(selectionSet)
    /\ pc' = "lowered"
    /\ UNCHANGED <<selectionSet, options, compileVars>>

NextLower == Lower

SpecLower == InitLower /\ [][NextLower]_vars

----------------------------------------------------------------------------
\* Vocabulary of the properties of the lowering

FullSet == Range(selectionSet.possibleTypes)

Records == selectionSet.typeCase.records

\* The fragment spread occurrences of the selection set, each with the
\* conditions passed on the way.
Occurrences ==
    {[spread |-> o.leaf, path |-> o.path] :
        o \in {l \in LeafOccurrences(selectionSet.selections, <<>>) :
                  l.leaf.kind = "FragmentSpread"}}

StrictSubset(a, b) == a \subseteq b /\ a # b

\* The occurrence lies inside a type condition narrower than the selection set.
Narrowed(o) ==
    \E i \in DOMAIN o.path :
        /\ o.path[i].kind = "TypeCondition"
        /\ StrictSubset(o.path[i].types, FullSet)

\* The occurrence is reached through boolean conditions only.
BooleanOnly(o) == \A i \in DOMAIN o.path : o.path[i].kind = "BooleanCondition"

Count(seq, x) == Cardinality({i \in DOMAIN seq : seq[i] = x})

RECURSIVE IsSubsequence(_, _)
IsSubsequence(a, b) ==
    IF a = <<>> THEN TRUE
    ELSE IF b = <<>> THEN FALSE
    ELSE IF Head(a) = Head(b) THEN IsSubsequence(Tail(a), Tail(b))
    ELSE IsSubsequence(a, Tail(b))

\* The lists of distinct types, in the schema's order.
RECURSIVE TypeLists(_)
TypeLists(types) ==
    IF types = <<>> THEN {<<>>}
    ELSE LET rest == TypeLists(Tail(types)) IN
         rest \cup {<<Head(types)>> \o t : t \in rest}

\* The targets collectFragmentSpreads is asked for.
Targets ==
    TypeLists(Types) \cup {selectionSet.possibleTypes}
    \cup {Records[i].possibleTypes : i \in DOMAIN Records}

\* C1: a fragment spread inside a type condition whose possible types are a
\* strict subset of the selection set's possible types contributes no entry
\* to the selection set's own fragmentSpreads.
NarrowedSpreadNotAtEnclosingLevel ==
    pc = "lowered" =>
        LET visible == collectFragmentSpreads(selectionSet, selectionSet.possibleTypes)
        IN /\ lowered.fragmentSpreads = fragmentNames(visible)
           /\ \A o \in Occurrences : Narrowed(o) => o.spread \notin Range(visible)
           /\ \A n \in FragmentNames :
                 Count(lowered.fragmentSpreads, n) <=
                     Cardinality({o \in Occurrences :
                                    o.spread.fragmentName = n /\ ~ Narrowed(o)})

WitnessNarrowedSpread ==
    /\ pc = "lowered"
    /\ \E o \in Occurrences : Narrowed(o)
    /\ lowered.fragmentSpreads # <<>>

\* C3: a fragment spread reached through boolean conditions only is collected
\* for every target, so it is in the selection set's fragmentSpreads and in
\* the fragmentSpreads of every inline fragment.
BooleanConditionTransparent ==
    pc = "lowered" =>
        /\ \A t \in Targets :
              LET collected == Range(collectFragmentSpreads(selectionSet, t))
              IN \A o \in Occurrences : BooleanOnly(o) => o.spread \in collected
        /\ \A n \in FragmentNames :
              LET k == Cardinality({o \in Occurrences :
                                      o.spread.fragmentName = n /\ BooleanOnly(o)})
              IN /\ Count(lowered.fragmentSpreads, n) >= k
                 /\ \A i \in DOMAIN lowered.inlineFragments :
                       Count(lowered.inlineFragments[i].fragmentSpreads, n) >= k

WitnessBooleanCondition ==
    /\ pc = "lowered"
    /\ \E o \in Occurrences : BooleanOnly(o) /\ o.path # <<>>
    /\ lowered.inlineFragments # <<>>

CoversAll(record) == FullSet \subseteq Range(record.possibleTypes)

fieldNames(fields) == [i \in DOMAIN fields |-> fields[i].name]

loweredFieldNames(fields) == [i \in DOMAIN fields |-> fields[i].fieldName]

\* C4: every inline fragment comes from an extra record that selects a field
\* and does not cover every possible type; no inline fragment is without
\* fields, and there is none when every extra record covers every type.
InlineFragmentsOnlyFromSelectiveRecords ==
    pc = "lowered" =>
        /\ \A i \in DOMAIN lowered.inlineFragments :
              LET frag == lowered.inlineFragments[i] IN
              /\ frag.fields # <<>>
              /\ \E r \in DOMAIN Records :
                    /\ Len(Records[r].fields) > 0
                    /\ ~ CoversAll(Records[r])
                    /\ Includes(Records[r].possibleTypes, frag.typeCondition)
                    /\ loweredFieldNames(frag.fields) = fieldNames(Records[r].fields)
        /\ (\A r \in DOMAIN Records : CoversAll(Records[r]))
              => lowered.inlineFragments = <<>>
        /\ (\A r \in DOMAIN Records : Records[r].fields = <<>>)
              => lowered.inlineFragments = <<>>

WitnessSelectiveRecords ==
    /\ pc = "lowered"
    /\ \E r \in DOMAIN Records : Records[r].fields = <<>> /\ ~ CoversAll(Records[r])
    /\ \E r \in DOMAIN Records : Records[r].fields # <<>> /\ ~ CoversAll(Records[r])
    /\ lowered.inlineFragments # <<>>

\* The extra records that select a field and do not cover every possible type.
Surviving == SelectSeq(Records, LAMBDA r : r.fields # <<>> /\ ~ CoversAll(r))

\* The number of inline fragments of the surviving records before the k-th.
RECURSIVE Offset(_)
Offset(k) == IF k <= 1 THEN 0 ELSE Offset(k - 1) + Len(Surviving[k - 1].possibleTypes)

\* C5: each surviving record with possible types P contributes one inline
\* fragment per member of P, in the order of P and the records in partition
\* order, each with that type as typeCondition and sole possible type, and
\* with the field list of the record's other inline fragments.
FanOutPerPossibleType ==
    pc = "lowered" =>
        /\ Len(lowered.inlineFragments) = Offset(Len(Surviving) + 1)
        /\ \A k \in DOMAIN Surviving :
              \A i \in DOMAIN Surviving[k].possibleTypes :
                  LET frag == lowered.inlineFragments[Offset(k) + i]
                      first == lowered.inlineFragments[Offset(k) + 1]
                  IN /\ frag.typeCondition = Surviving[k].possibleTypes[i]
                     /\ frag.possibleTypes = <<Surviving[k].possibleTypes[i]>>
                     /\ frag.fields = first.fields
                     /\ loweredFieldNames(frag.fields) = fieldNames(Surviving[k].fields)

WitnessFanOut ==
    /\ pc = "lowered"
    /\ Len(Surviving) = 2
    /\ Len(Surviving[1].possibleTypes) = 2
    /\ Len(lowered.inlineFragments) = 3

\* C10: narrowing the target hides no fragment spread: what is collected for
\* the full set of possible types is a subsequence of what is collected for
\* any subset of it, so the selection set's fragmentSpreads are a subsequence
\* of the fragmentSpreads of each inline fragment.
NarrowingHidesNoSpread ==
    pc = "lowered" =>
        /\ LET full == collectFragmentSpreads(selectionSet, selectionSet.possibleTypes)
           IN \A t \in Targets :
                 Range(t) \subseteq FullSet =>
                     IsSubsequence(full, collectFragmentSpreads(selectionSet, t))
        /\ \A i \in DOMAIN lowered.inlineFragments :
              IsSubsequence(lowered.fragmentSpreads,
                            lowered.inlineFragments[i].fragmentSpreads)

WitnessNarrowing ==
    /\ pc = "lowered"
    /\ lowered.fragmentSpreads # <<>>
    /\ \E i \in DOMAIN lowered.inlineFragments :
          /\ Len(lowered.inlineFragments[i].fragmentSpreads)
                > Len(lowered.fragmentSpreads)
          /\ lowered.inlineFragments[i].fragmentSpreads[1] # lowered.fragmentSpreads[1]

\* The type conditions among the direct selections of the selection set that
\* are narrower than it, with the fragment spreads placed in them.
NarrowDirectConditions ==
    {i \in DOMAIN selectionSet.selections :
        /\ selectionSet.selections[i].kind = "TypeCondition"
        /\ StrictSubset(Range(selectionSet.selections[i].selectionSet.possibleTypes),
                        FullSet)}

SpreadsPlacedIn(selection) ==
    {sel \in Range(selection.selectionSet.selections) : sel.kind = "FragmentSpread"}

\* C2: a fragment spread placed in a direct type condition narrower than the
\* selection set is listed by an inline fragment of each possible type of
\* that condition.
NarrowedSpreadInInlineFragments ==
    pc = "lowered" =>
        \A c \in NarrowDirectConditions :
            \A spread \in SpreadsPlacedIn(selectionSet.selections[c]) :
                \A T \in Range(selectionSet.selections[c].selectionSet.possibleTypes) :
                    \E i \in DOMAIN lowered.inlineFragments :
                        /\ lowered.inlineFragments[i].typeCondition = T
                        /\ Includes(lowered.inlineFragments[i].fragmentSpreads,
                                    spread.fragmentName)

\* C6: the inline fragment of each possible type of a record lists the
\* fragment spreads collected for that type alone.
SpreadsPerPossibleType ==
    pc = "lowered" =>
        \A k \in DOMAIN Surviving :
            \A i \in DOMAIN Surviving[k].possibleTypes :
                lowered.inlineFragments[Offset(k) + i].fragmentSpreads =
                    fragmentNames(
                        collectFragmentSpreads(
                            selectionSet, <<Surviving[k].possibleTypes[i]>>))

----------------------------------------------------------------------------
\* Vocabulary of the properties of compileToLegacyIR

\* The operation of context.operations with a name.
operationNamed(name) ==
    context.operations[CHOOSE i \in DOMAIN context.operations :
                          context.operations[i].operationName = name]

\* The sources of the fragments an operation references, in their order.
referencedSources(compiled) ==
    [k \in DOMAIN compiled.fragmentsReferenced |->
        fragmentNamed(context, compiled.fragmentsReferenced[k]).source]

\* text is first, then for each of the rest a newline and it.
RECURSIVE IsFirstThenLines(_, _, _)
IsFirstThenLines(text, first, rest) ==
    IF rest = <<>> THEN text = first
    ELSE LET last == rest[Len(rest)]
             cut == Len(text) - Len(last)
         IN /\ cut >= 1
            /\ SubSeq(text, cut + 1, Len(text)) = last
            /\ text[cut] = "\n"
            /\ IsFirstThenLines(SubSeq(text, 1, cut - 1), first,
                                SubSeq(rest, 1, Len(rest) - 1))

\* C9: sourceWithFragments is the source of the operation, then the source
\* of each fragment referenced, in their order, each after a newline; the
\* operationId depends on sourceWithFragments alone: operations with the same
\* source and the same sources of referenced fragments have the same one.
OperationIdOfSourceWithFragments ==
    \A n \in DOMAIN operations :
        /\ operations[n].source = operationNamed(n).source
        /\ IsFirstThenLines(operations[n].sourceWithFragments, operations[n].source,
                            referencedSources(operations[n]))
        /\ \A m \in DOMAIN operations :
              /\ (/\ operations[m].source = operations[n].source
                  /\ referencedSources(operations[m]) = referencedSources(operations[n]))
                    => operations[m].operationId = operations[n].operationId
              /\ operations[m].sourceWithFragments = operations[n].sourceWithFragments
                    => operations[m].operationId = operations[n].operationId

WitnessSameOperationId ==
    /\ pc = "returned"
    /\ \E n, m \in DOMAIN legacyContext.operations :
          /\ n # m
          /\ operations[n].fragmentsReferenced # <<>>
          /\ operations[n].fragmentsReferenced # operations[m].fragmentsReferenced
          /\ operations[n].source = operations[m].source
          /\ operations[n].operationId = operations[m].operationId

\* C7: an operation has an operationId only when the option
\* generateOperationIds is set.
OperationIdOnlyWhenOptionSet ==
    \A n \in DOMAIN operations :
        "operationId" \in DOMAIN operations[n] =>
            /\ "generateOperationIds" \in DOMAIN options
            /\ options.generateOperationIds

\* The names of the fragments the operation at cursor references and
\* context.fragments does not hold.
MissingFragments ==
    LET operation == context.operations[cursor]
        referenced == collectFragmentsReferenced(context, operation.selectionSet)
    IN {name \in Range(referenced) : fragmentNamed(context, name) = Undefined}

\* C8: a fragment referenced and not defined ends the run with nothing
\* returned and an error that names the fragment and the operation.
MissingFragmentNamedInError ==
    pc = "thrown" =>
        /\ legacyContext = NotReturned
        /\ \E name \in MissingFragments : Includes(error.message, name)
        /\ Includes(error.message, context.operations[cursor].operationName)

====
